---- MODULE Spec2Model ----
(***************************************************************************)
(* Model of server/database.js of LightBnB: the six exported data-access   *)
(* operations, each building one parameterized query, handing it to        *)
(* db.query and shaping the store's answer in a .then handler.             *)
(*                                                                         *)
(* JavaScript values are records [t, sg, m, e, s]:                         *)
(*   t = "undefined" | "null" | "bool" | "num" | "inf" | "nan" | "str"     *)
(*   a number is the IEEE 754 double (-1)^sg * m * 2^e, m a sequence of    *)
(*   bits, most significant first, odd (empty for zero); t = "inf" is      *)
(*   (-1)^sg * Infinity; a bool keeps <<1>> or <<>> in m                   *)
(*   s = the characters of a string                                        *)
(* A mapping (options, user, property) is the sequence of its own          *)
(* enumerable entries [key, value] in insertion order, keys distinct.      *)
(* A query text is a sequence of fragments [k, ph]: k the SQL text of the  *)
(* fragment, ph the index of the placeholder $ph it ends with (0: none).   *)
(*                                                                         *)
(* Spec is the module as the server runs it: calls of the six operations   *)
(* overlap, each with its own query in flight, and the store settles them  *)
(* in any order.  SearchSpec applies the query builder of getAllProperties *)
(* to one options mapping and limit, drawn from a large set.               *)
(***************************************************************************)
EXTENDS Integers, Sequences, FiniteSets, Bags, TLC

VARIABLES calls, options, limit, request

vars == <<calls, options, limit, request>>

\* ---------------------------------------------------------------- bounds
\* longest options mapping whose keys are drawn in every insertion order
MaxKeys == 4
\* most rows the store answers with
MaxRows == 2
\* most calls in flight at once
MaxCalls == 2

\* ---------------------------------------------------------------- values
Undefined == [t |-> "undefined", sg |-> 0, m |-> <<>>, e |-> 0, s |-> <<>>]
Null == [t |-> "null", sg |-> 0, m |-> <<>>, e |-> 0, s |-> <<>>]
NaN == [t |-> "nan", sg |-> 0, m |-> <<>>, e |-> 0, s |-> <<>>]
Bool(b) ==
  [t |-> "bool", sg |-> 0, m |-> IF b THEN <<1>> ELSE <<>>, e |-> 0,
   s |-> <<>>]
Str(cs) == [t |-> "str", sg |-> 0, m |-> <<>>, e |-> 0, s |-> cs]
\* the finite double (-1)^sg * m * 2^e, m in bits
Finite(sg, m, e) == [t |-> "num", sg |-> sg, m |-> m, e |-> e, s |-> <<>>]
\* +0 and -0
Zero(sg) == Finite(sg, <<>>, 0)
\* +Infinity and -Infinity
Infinity(sg) == [t |-> "inf", sg |-> sg, m |-> <<>>, e |-> 0, s |-> <<>>]

\* variant of Truthy: a test for null/undefined/'' that lets 0 through
TruthyZeroCounts(v) ==
  CASE v.t = "undefined" -> FALSE
    [] v.t = "null" -> FALSE
    [] v.t = "nan" -> FALSE
    [] v.t = "bool" -> v.m # <<>>
    [] v.t = "num" -> TRUE
    [] v.t = "inf" -> TRUE
    [] v.t = "str" -> v.s # <<>>

\* JavaScript ToBoolean, as applied by `if (x)` and `x && ...`
Truthy(v) ==
  CASE v.t = "undefined" -> FALSE
    [] v.t = "null" -> FALSE
    [] v.t = "nan" -> FALSE
    [] v.t = "bool" -> v.m # <<>>
    [] v.t = "num" -> v.m # <<>>
    [] v.t = "inf" -> TRUE
    [] v.t = "str" -> v.s # <<>>

\* ------------------------------------------- naturals of any size, in bits
\* most significant bit first; the operations split their argument in halves
Front(q) == SubSeq(q, 1, Len(q) - 1)

Last(q) == q[Len(q)]

Zeros(n) == [i \in 1..n |-> 0]

\* the first position of q holding a member of set, 0 when none
IndexOf(q, set) ==
  IF \E i \in 1..Len(q) : q[i] \in set
  THEN CHOOSE i \in 1..Len(q) :
         q[i] \in set /\ \A j \in 1..i - 1 : q[j] \notin set
  ELSE 0

\* the last position of q holding a member of set, 0 when none
LastIndexOf(q, set) ==
  IF \E i \in 1..Len(q) : q[i] \in set
  THEN CHOOSE i \in 1..Len(q) :
         q[i] \in set /\ \A j \in i + 1..Len(q) : q[j] \notin set
  ELSE 0

StripLeading(bits) ==
  LET i == IndexOf(bits, {1})
  IN IF i = 0 THEN <<>> ELSE SubSeq(bits, i, Len(bits))

TrailingZeros(bits) == Len(bits) - LastIndexOf(bits, {1})

RECURSIVE NatBits(_)
\* the bits of a natural number
NatBits(k) == IF k = 0 THEN <<>> ELSE NatBits(k \div 2) \o <<k % 2>>

RECURSIVE Pow(_, _)
Pow(c, k) == IF k = 0 THEN 1 ELSE c * Pow(c, k - 1)

\* the low Len(bits) bits of bits * c + a, and what is carried out of them
MulCarry[bits \in Seq({0, 1}), c \in Nat, a \in Nat] ==
  IF bits = <<>> THEN [b |-> <<>>, carry |-> a]
  ELSE IF Len(bits) = 1
  THEN LET d == bits[1] * c + a
       IN [b |-> <<d % 2>>, carry |-> d \div 2]
  ELSE LET h == Len(bits) \div 2
           lo == MulCarry[SubSeq(bits, h + 1, Len(bits)), c, a]
           hi == MulCarry[SubSeq(bits, 1, h), c, lo.carry]
       IN [b |-> hi.b \o lo.b, carry |-> hi.carry]

\* bits * c + a, for c and a up to 10^8
MulAdd(bits, c, a) ==
  LET r == MulCarry[bits, c, a] IN NatBits(r.carry) \o r.b

\* bits * c^k, for c up to 10
MulPow[bits \in Seq({0, 1}), c \in Nat, k \in Nat] ==
  IF k <= 8 THEN MulAdd(bits, Pow(c, k), 0)
  ELSE MulPow[MulPow[bits, c, k \div 2], c, k - k \div 2]

\* quotient (as many bits as bits) and remainder of r0 * 2^Len(bits) + bits
\* by d, for r0 < d
DivRem[bits \in Seq({0, 1}), d \in Nat, r0 \in Nat] ==
  IF bits = <<>> THEN [q |-> <<>>, r |-> r0]
  ELSE IF Len(bits) = 1
  THEN LET x == 2 * r0 + bits[1]
       IN IF x >= d THEN [q |-> <<1>>, r |-> x - d]
          ELSE [q |-> <<0>>, r |-> x]
  ELSE LET h == Len(bits) \div 2
           hi == DivRem[SubSeq(bits, 1, h), d, r0]
           lo == DivRem[SubSeq(bits, h + 1, Len(bits)), d, hi.r]
       IN [q |-> hi.q \o lo.q, r |-> lo.r]

\* quotient and remainder of bits by d, for d up to 10^8
DivMod(bits, d) == DivRem[bits, d, 0]

\* floor(bits / 10^k), and whether anything was cut off
DivPow10[bits \in Seq({0, 1}), k \in Nat, sticky \in BOOLEAN] ==
  IF k <= 8
  THEN LET p == DivMod(bits, Pow(10, k))
       IN [q |-> StripLeading(p.q), sticky |-> sticky \/ p.r # 0]
  ELSE LET p == DivPow10[bits, k \div 2, sticky]
       IN DivPow10[p.q, k - k \div 2, p.sticky]

Increment(bits) ==
  LET i == LastIndexOf(bits, {0})
  IN IF i = 0 THEN <<1>> \o Zeros(Len(bits))
     ELSE SubSeq(bits, 1, i - 1) \o <<1>> \o Zeros(Len(bits) - i)

RECURSIVE BitsDigits(_)
\* the decimal digits 0..9 of a natural in bits, most significant first
BitsDigits(bits) ==
  IF bits = <<>> THEN <<>>
  ELSE LET p == DivMod(bits, 10)
       IN BitsDigits(StripLeading(p.q)) \o <<p.r>>

\* ------------------------------------------------------ IEEE 754 doubles
\* m * 2^e with m odd
Canonical(sg, bits, e) ==
  IF bits = <<>> THEN Zero(sg)
  ELSE LET z == TrailingZeros(bits)
       IN Finite(sg, SubSeq(bits, 1, Len(bits) - z), e + z)

\* bits * 2^e as a double: Infinity above the largest exponent
Bounded(sg, bits, e) ==
  IF bits = <<>> THEN Zero(sg)
  ELSE IF e + Len(bits) - 1 > 1023 THEN Infinity(sg)
  ELSE Canonical(sg, bits, e)

\* bits without its last drop bits, rounded to nearest, ties to even; sticky
\* when bits stands for a little more than its value
Rounded(bits, drop, sticky) ==
  LET keep == IF drop >= Len(bits) THEN 0 ELSE Len(bits) - drop
      half == drop <= Len(bits) /\ bits[keep + 1] = 1
      more == sticky \/ drop > Len(bits)
                \/ \E i \in keep + 2..Len(bits) : bits[i] = 1
      odd == keep > 0 /\ bits[keep] = 1
  IN IF half /\ (more \/ odd) THEN Increment(SubSeq(bits, 1, keep))
     ELSE SubSeq(bits, 1, keep)

\* bits * 2^e with its last drop bits rounded away
CutAt(sg, bits, e, sticky, drop) ==
  IF drop <= 0 THEN Bounded(sg, bits, e)
  ELSE Bounded(sg, StripLeading(Rounded(bits, drop, sticky)), e + drop)

\* the exponent of the last bit a double whose first bit has exponent top
\* keeps: 53 bits, none below 2^-1074
Quantum(top) == IF top - 52 > -1074 THEN top - 52 ELSE -1074

\* the double nearest to bits * 2^e (plus less than one unit of 2^e when
\* sticky), ties to even
RoundBits(sg, bits, e, sticky) ==
  CutAt(sg, bits, e, sticky, Quantum(e + Len(bits) - 1) - e)

RoundToDouble(sg, bits, e, sticky) ==
  RoundBits(sg, StripLeading(bits), e, sticky)

Digits == <<"0", "1", "2", "3", "4", "5", "6", "7", "8", "9">>

IsDigit(c) == \E d \in 1..10 : Digits[d] = c

DigitVal(c) == (CHOOSE d \in 1..10 : Digits[d] = c) - 1

AllDigits(cs) == \A i \in 1..Len(cs) : IsDigit(cs[i])

RECURSIVE DigitsVal(_)
\* the natural number written by a short sequence of digits
DigitsVal(cs) ==
  IF cs = <<>> THEN 0
  ELSE 10 * DigitsVal(Front(cs)) + DigitVal(Last(cs))

\* the low Len(a) bits of a + b + c, a and b of one length, and what is
\* carried out of them
AddCarry[a \in Seq({0, 1}), b \in Seq({0, 1}), c \in {0, 1}] ==
  IF a = <<>> THEN [b |-> <<>>, carry |-> c]
  ELSE IF Len(a) = 1
  THEN LET d == a[1] + b[1] + c
       IN [b |-> <<d % 2>>, carry |-> d \div 2]
  ELSE LET h == Len(a) \div 2
           lo == AddCarry[SubSeq(a, h + 1, Len(a)), SubSeq(b, h + 1, Len(b)),
                          c]
           hi == AddCarry[SubSeq(a, 1, h), SubSeq(b, 1, h), lo.carry]
       IN [b |-> hi.b \o lo.b, carry |-> hi.carry]

\* bits with zeros before it, n bits in all
Padded(bits, n) == Zeros(n - Len(bits)) \o bits

AddPadded(a, b, n) ==
  LET r == AddCarry[Padded(a, n), Padded(b, n), 0]
  IN StripLeading(<<r.carry>> \o r.b)

\* a + b
Add[a \in Seq({0, 1}), b \in Seq({0, 1})] ==
  AddPadded(a, b, IF Len(a) > Len(b) THEN Len(a) ELSE Len(b))

\* the natural number written by a sequence of digits, in bits: the first
\* half times ten to the length of the second, plus the second
DigitsBits[cs \in Seq(STRING)] ==
  IF Len(cs) <= 8 THEN NatBits(DigitsVal(cs))
  ELSE Add[MulPow[DigitsBits[SubSeq(cs, 1, Len(cs) - Len(cs) \div 2)], 10,
                  Len(cs) \div 2],
           DigitsBits[SubSeq(cs, Len(cs) - Len(cs) \div 2 + 1, Len(cs))]]

\* the digits of cs from its first digit other than 0
Significand(cs) ==
  LET i == IndexOf(cs, {Digits[d] : d \in 2..10})
  IN IF i = 0 THEN <<>> ELSE SubSeq(cs, i, Len(cs))

\* the digits of a decimal literal that can change the double it denotes:
\* no double and no point half way between two doubles has more significant
\* decimal digits, so what follows them only tells whether the literal is
\* above the number they write
MaxDigits == 800

\* cs cut to its first MaxDigits digits: the digits kept, how many were cut
\* off and whether one of those was not 0
Kept(cs) ==
  IF Len(cs) <= MaxDigits THEN [d |-> cs, cut |-> 0, sticky |-> FALSE]
  ELSE [d |-> SubSeq(cs, 1, MaxDigits), cut |-> Len(cs) - MaxDigits,
        sticky |-> \E i \in MaxDigits + 1..Len(cs) : cs[i] # "0"]

\* d * 10^x as q * 2^e, cut to a whole q when x < 0; sticky when d stands
\* for a little more than its value
Scaled(d, x, sticky) ==
  IF x >= 0 THEN [q |-> MulPow[d, 10, x], sticky |-> sticky, e |-> 0]
  ELSE [e |-> 0 - (4 * (0 - x) + 64)]
         @@ DivPow10[d \o Zeros(4 * (0 - x) + 64), 0 - x, sticky]

RoundScaled(sg, p) == RoundToDouble(sg, p.q, p.e, p.sticky)

\* the double nearest to k.d * 10^(x + k.cut), or to a little more
ScaleKept(sg, k, x) ==
  RoundScaled(sg, Scaled(DigitsBits[k.d], x + k.cut, k.sticky))

\* the double nearest to cs * 10^x, cs digits the first of which is not 0:
\* Infinity from 10^310, 0 below 10^-330
ScaleToDouble(sg, cs, x) ==
  IF cs = <<>> THEN Zero(sg)
  ELSE IF x + Len(cs) > 310 THEN Infinity(sg)
  ELSE IF x + Len(cs) < -330 THEN Zero(sg)
  ELSE ScaleKept(sg, Kept(cs), x)

\* the double nearest to cs * 10^x, cs a sequence of decimal digits
DecimalToDouble(sg, cs, x) == ScaleToDouble(sg, Significand(cs), x)

RECURSIVE NatToStr(_)
\* the decimal digits of a natural number
NatToStr(k) ==
  IF k < 10 THEN <<Digits[k + 1]>>
  ELSE NatToStr(k \div 10) \o <<Digits[(k % 10) + 1]>>

\* the number literal i, a natural
Whole(i) == Canonical(0, NatBits(i), 0)

\* the number literal written with two decimals, h hundredths: Dec(150) is
\* 1.50, Dec(110) is 1.1
Dec(h) == DecimalToDouble(0, NatToStr(h), -2)

\* ------------------------------------------------------------- Number(v)
\* the characters StringToNumber strips from both ends: the WhiteSpace and
\* LineTerminator productions of ECMAScript. A character a string of this
\* notation cannot hold is written as its escape, one element of the
\* sequence of characters
WhiteSpace ==
  {"\t", "\n", "", "\f", "\r", " ", " ", " "}
    \cup {"\\u2000", "\\u2001", "\\u2002", "\\u2003", "\\u2004", "\\u2005",
          "\\u2006", "\\u2007", "\\u2008", "\\u2009", "\\u200a"}
    \cup {"\\u2028", "\\u2029", "\\u202f", "\\u205f", "\\u3000", "﻿"}

\* the string without its leading and trailing white space
Trim(cs) ==
  LET ink == {cs[i] : i \in 1..Len(cs)} \ WhiteSpace
      a == IndexOf(cs, ink)
  IN IF a = 0 THEN <<>> ELSE SubSeq(cs, a, LastIndexOf(cs, ink))

HexDigits ==
  <<"0", "1", "2", "3", "4", "5", "6", "7", "8", "9", "a", "b", "c", "d",
    "e", "f">>

UpperHex == <<"A", "B", "C", "D", "E", "F">>

\* the value of a digit in a radix up to 16, -1 when it is none
RadixVal(c, radix) ==
  LET v == IF \E d \in 1..16 : HexDigits[d] = c
           THEN (CHOOSE d \in 1..16 : HexDigits[d] = c) - 1
           ELSE IF \E d \in 1..6 : UpperHex[d] = c
           THEN (CHOOSE d \in 1..6 : UpperHex[d] = c) + 9
           ELSE -1
  IN IF v < radix THEN v ELSE -1

\* the natural written by digits of radix 2^w, in bits
RadixBits(cs, radix) ==
  LET w == CASE radix = 16 -> 4 [] radix = 8 -> 3 [] radix = 2 -> 1
  IN [i \in 1..w * Len(cs) |->
        (RadixVal(cs[((i - 1) \div w) + 1], radix)
           \div Pow(2, w - 1 - ((i - 1) % w))) % 2]

\* 0x.., 0o.., 0b..: at least one digit of the radix, no sign
NonDecimal(cs, radix) ==
  LET ds == SubSeq(cs, 3, Len(cs))
  IN IF ds # <<>> /\ \A i \in 1..Len(ds) : RadixVal(ds[i], radix) >= 0
     THEN RoundToDouble(0, RadixBits(ds, radix), 0, FALSE)
     ELSE NaN

\* of two runs of digits of one length, a writes the greater number
Above(a, b) ==
  \E i \in 1..Len(a) :
    DigitVal(a[i]) > DigitVal(b[i]) /\ \A j \in 1..i - 1 : a[j] = b[j]

\* the natural written by the digits cs, the first of which is not 0, is
\* greater than the integer t; cs may be of any length
Greater(cs, t) ==
  t < 0 \/ Len(cs) > Len(NatToStr(t))
        \/ (Len(cs) = Len(NatToStr(t)) /\ Above(cs, NatToStr(t)))

\* the exponent part of a literal, the text after its e: whether it is well
\* formed, its sign and its digits from the first that is not 0
ExponentOf(expo) ==
  LET edig == IF expo # <<>> /\ expo[1] \in {"+", "-"} THEN Tail(expo)
              ELSE expo
  IN IF edig # <<>> /\ AllDigits(edig)
     THEN [ok |-> TRUE, neg |-> expo[1] = "-", digs |-> Significand(edig)]
     ELSE [ok |-> FALSE, neg |-> FALSE, digs |-> <<>>]

NoExponent == [ok |-> TRUE, neg |-> FALSE, digs |-> <<>>]

\* the exponent ex as an integer
Signed(ex) ==
  IF ex.neg THEN 0 - DigitsVal(ex.digs) ELSE DigitsVal(ex.digs)

\* cs * 10^(ex - lenfp) is 10^310 or more, or, the exponent negative, less
\* than 10^-330: decided on the digits of the exponent, however many
Beyond(cs, lenfp, ex) ==
  Greater(ex.digs, IF ex.neg THEN 330 - lenfp + Len(cs)
                   ELSE 310 + lenfp - Len(cs))

\* the double nearest to cs * 10^(ex - lenfp), cs digits the first of which
\* is not 0
TimesExponent(sg, cs, lenfp, ex) ==
  IF cs = <<>> THEN Zero(sg)
  ELSE IF Beyond(cs, lenfp, ex)
  THEN IF ex.neg THEN Zero(sg) ELSE Infinity(sg)
  ELSE ScaleToDouble(sg, cs, Signed(ex) - lenfp)

\* digits, a dot and digits, one of the runs of digits at least
DotDecimal(sg, ip, fp, ex) ==
  IF AllDigits(ip) /\ AllDigits(fp) /\ Len(ip) + Len(fp) >= 1
  THEN TimesExponent(sg, Significand(ip \o fp), Len(fp), ex)
  ELSE NaN

\* the mantissa mant, with its dot at position dot if any, times 10^ex
Mantissa(sg, mant, dot, ex) ==
  IF ~ex.ok THEN NaN
  ELSE IF dot = 0 THEN DotDecimal(sg, mant, <<>>, ex)
  ELSE DotDecimal(sg, SubSeq(mant, 1, dot - 1),
                  SubSeq(mant, dot + 1, Len(mant)), ex)

\* the literal cs with its exponent mark at position ePos if any
Scientific(sg, cs, ePos) ==
  IF ePos = 0
  THEN Mantissa(sg, cs, IndexOf(cs, {"."}), NoExponent)
  ELSE Mantissa(sg, SubSeq(cs, 1, ePos - 1),
                IndexOf(SubSeq(cs, 1, ePos - 1), {"."}),
                ExponentOf(SubSeq(cs, ePos + 1, Len(cs))))

\* an unsigned StrDecimalLiteral: Infinity, or digits with an optional dot
\* and an optional exponent
StrDecimal(sg, cs) ==
  IF cs = <<"I", "n", "f", "i", "n", "i", "t", "y">> THEN Infinity(sg)
  ELSE Scientific(sg, cs, IndexOf(cs, {"e", "E"}))

\* the radix a literal's prefix announces
Radix(cs) ==
  IF Len(cs) >= 2 /\ cs[1] = "0"
  THEN CASE cs[2] \in {"x", "X"} -> 16
         [] cs[2] \in {"o", "O"} -> 8
         [] cs[2] \in {"b", "B"} -> 2
         [] OTHER -> 10
  ELSE 10

\* a StrNumericLiteral is its rounded value, '' is 0, anything else is NaN
StrNumericLiteral(cs) ==
  IF cs = <<>> THEN Zero(0)
  ELSE IF Radix(cs) # 10 THEN NonDecimal(cs, Radix(cs))
  ELSE StrDecimal(IF cs[1] = "-" THEN 1 ELSE 0,
                  IF cs[1] \in {"+", "-"} THEN Tail(cs) ELSE cs)

\* StringToNumber: the literal left when white space is trimmed
StrToNumber(cs) == StrNumericLiteral(Trim(cs))

\* JavaScript Number(v)
ToNumber(v) ==
  CASE v.t = "undefined" -> NaN
    [] v.t = "null" -> Zero(0)
    [] v.t = "nan" -> NaN
    [] v.t = "bool" -> IF v.m # <<>> THEN Whole(1) ELSE Zero(0)
    [] v.t = "num" -> v
    [] v.t = "inf" -> v
    [] v.t = "str" -> StrToNumber(v.s)

\* x * 100 on doubles
DoubleTimes100(x) ==
  CASE x.t = "nan" -> NaN
    [] x.t = "inf" -> x
    [] x.t = "num" -> RoundToDouble(x.sg, MulAdd(x.m, 100, 0), x.e, FALSE)

\* variant of TimesHundred: the price bound in major units
TimesHundredUnscaled(v) == ToNumber(v)

\* Number(v) * 100
TimesHundred(v) == DoubleTimes100(ToNumber(v))

\* ------------------------------------------------------ Number::toString
\* the decimal exponent below which the digits of bits * 2^e are cut, so
\* that twenty or more are left
DecimalCut(len, e) == ((len + e - 1) * 30103) \div 100000 - 21

\* floor(bits * 2^e / 10^x), and whether that cut something off
TimesPow10(bits, e, x) ==
  IF e >= 0
  THEN DivPow10[bits \o Zeros(e), IF x > 0 THEN x ELSE 0, FALSE]
  ELSE [q |-> SubSeq(bits, 1, Len(bits) + e),
        sticky |-> \E i \in Len(bits) + e + 1..Len(bits) : bits[i] = 1]

\* the leading decimal digits of m * 2^e, twenty or more unless there are
\* fewer: floor(m * 2^e / 10^x) in digits d, sticky when that cut something
LeadingDigits(p, x) == [d |-> BitsDigits(p.q), x |-> x, sticky |-> p.sticky]

LeadingDecimal(m, e) ==
  IF e >= 0
  THEN LeadingDigits(TimesPow10(m, e, DecimalCut(Len(m), e)),
                     IF DecimalCut(Len(m), e) > 0 THEN DecimalCut(Len(m), e)
                     ELSE 0)
  ELSE LeadingDigits(TimesPow10(MulPow[m, 10, 0 - DecimalCut(Len(m), e)],
                                e, 0),
                     DecimalCut(Len(m), e))

DigitChars(ds) == [i \in 1..Len(ds) |-> Digits[ds[i] + 1]]

RECURSIVE IncDigits(_)
IncDigits(ds) ==
  IF ds = <<>> THEN <<1>>
  ELSE IF Last(ds) < 9 THEN Front(ds) \o <<Last(ds) + 1>>
  ELSE IncDigits(Front(ds)) \o <<0>>

\* the decimal ds * 10^x reads back as the double v
RoundTrips(ds, x, v) ==
  DecimalToDouble(0, DigitChars(ds), x) = Finite(0, v.m, v.e)

\* the k leading digits of ex cut off and rounded up, the nearer to ex first
Candidates(ex, k) ==
  LET lo == SubSeq(ex.d, 1, k)
      rest == ex.sticky \/ \E i \in k + 2..Len(ex.d) : ex.d[i] # 0
  IN IF ex.d[k + 1] > 5 \/ (ex.d[k + 1] = 5 /\ (rest \/ lo[k] % 2 = 1))
     THEN <<IncDigits(lo), lo>>
     ELSE <<lo, IncDigits(lo)>>

\* which of the two candidates of k digits read back as v
Fitting(v, ex, k) ==
  {c \in 1..2 : RoundTrips(Candidates(ex, k)[c], ex.x + Len(ex.d) - k, v)}

RECURSIVE Shortest(_, _, _)
RECURSIVE Nearest(_, _, _, _)
\* the decimal of the fewest digits, k or more, that reads back as v; of two
\* with as many digits the one nearer to v
Shortest(v, ex, k) ==
  IF k >= Len(ex.d) THEN [d |-> ex.d, x |-> ex.x]
  ELSE Nearest(v, ex, k, Fitting(v, ex, k))

Nearest(v, ex, k, fit) ==
  IF fit = {} THEN Shortest(v, ex, k + 1)
  ELSE [d |-> Candidates(ex, k)[IF 1 \in fit THEN 1 ELSE 2],
        x |-> ex.x + Len(ex.d) - k]

\* the exponent part of the scientific notation of a number in [10^(n-1),
\* 10^n)
ExponentPart(n) ==
  IF n - 1 < 0 THEN <<"e", "-">> \o NatToStr(1 - n)
  ELSE <<"e", "+">> \o NatToStr(n - 1)

\* the k digits d of a number in [10^(n-1), 10^n) as JavaScript writes them
Notation(d, n) ==
  IF Len(d) <= n /\ n <= 21 THEN d \o [i \in 1..n - Len(d) |-> "0"]
  ELSE IF 0 < n /\ n <= 21
  THEN SubSeq(d, 1, n) \o <<".">> \o SubSeq(d, n + 1, Len(d))
  ELSE IF -6 < n /\ n <= 0
  THEN <<"0", ".">> \o [i \in 1..0 - n |-> "0"] \o d
  ELSE IF Len(d) = 1 THEN d \o ExponentPart(n)
  ELSE <<d[1], ".">> \o SubSeq(d, 2, Len(d)) \o ExponentPart(n)

\* the digits ds without their trailing zeros
Significant(ds) == SubSeq(ds, 1, LastIndexOf(ds, 1..9))

\* the decimal sh.d * 10^sh.x in JavaScript's notation
Written(sh) == Notation(DigitChars(Significant(sh.d)), Len(sh.d) + sh.x)

\* Number::toString(x), radix 10
NumToStr(v) ==
  IF v.t = "nan" THEN <<"N", "a", "N">>
  ELSE (IF v.sg = 1 /\ (v.t = "inf" \/ v.m # <<>>) THEN <<"-">> ELSE <<>>)
         \o (IF v.t = "inf" THEN <<"I", "n", "f", "i", "n", "i", "t", "y">>
             ELSE IF v.m = <<>> THEN <<"0">>
             ELSE Written(Shortest(v, LeadingDecimal(v.m, v.e), 1)))

\* String(v) inside a template literal
ToStr(v) ==
  CASE v.t = "str" -> v.s
    [] v.t \in {"num", "inf", "nan"} -> NumToStr(v)
    [] v.t = "bool" -> IF v.m # <<>> THEN <<"t", "r", "u", "e">>
                       ELSE <<"f", "a", "l", "s", "e">>
    [] v.t = "null" -> <<"n", "u", "l", "l">>
    [] v.t = "undefined" -> <<"u", "n", "d", "e", "f", "i", "n", "e", "d">>

\* `%${city}%`
Wrap(v) == Str(<<"%">> \o ToStr(v) \o <<"%">>)

\* -------------------------------------------------------------- mappings
WhereKeys ==
  <<"city", "owner_id", "minimum_price_per_night", "maximum_price_per_night">>

FilterKeys == WhereKeys \o <<"minimum_rating">>

\* keys a caller may add that the search does not recognise
ExtraKeys == <<"rating">>

\* the characters of the keys and key literals used
Chars(key) ==
  CASE key = "city" -> <<"c", "i", "t", "y">>
    [] key = "owner_id" -> <<"o", "w", "n", "e", "r", "_", "i", "d">>
    [] key = "minimum_price_per_night" ->
         <<"m", "i", "n", "i", "m", "u", "m", "_", "p", "r", "i", "c", "e",
           "_", "p", "e", "r", "_", "n", "i", "g", "h", "t">>
    [] key = "maximum_price_per_night" ->
         <<"m", "a", "x", "i", "m", "u", "m", "_", "p", "r", "i", "c", "e",
           "_", "p", "e", "r", "_", "n", "i", "g", "h", "t">>
    [] key = "minimum_rating" ->
         <<"m", "i", "n", "i", "m", "u", "m", "_", "r", "a", "t", "i", "n",
           "g">>
    [] key = "rating" -> <<"r", "a", "t", "i", "n", "g">>
    [] key = "title" -> <<"t", "i", "t", "l", "e">>

\* options[key] and destructuring: the entry's value, undefined when absent
Get(m, key) ==
  IF \E i \in 1..Len(m) : m[i].key = key
  THEN m[CHOOSE i \in 1..Len(m) : m[i].key = key].value
  ELSE Undefined

\* Array.prototype.includes
ArrayIncludes(arr, x) == \E i \in 1..Len(arr) : arr[i] = x

\* String.prototype.includes: needle occurs in hay as a substring
StrIncludes(hay, needle) ==
  \E i \in 0..Len(hay) - Len(needle) :
    SubSeq(hay, i + 1, i + Len(needle)) = needle

\* ------------------------------------------------------- getAllProperties
Frag(k, ph) == [k |-> k, ph |-> ph]

SelectProperties ==
  Frag("SELECT properties.*, avg(property_reviews.rating) as average_rating FROM properties JOIN property_reviews ON properties.id = property_id", 0)

EmptyAcc == [values |-> <<>>, strings |-> <<>>]

\* variant of Push: the placeholder index written by hand as $1
PushFirstIndex(acc, k, value) ==
  [values |-> Append(acc.values, value),
   strings |-> Append(acc.strings, Frag(k, 1))]

\* queryValues.push(value); strings.push(`${k} $${queryValues.length}`)
Push(acc, k, value) ==
  [values |-> Append(acc.values, value),
   strings |-> Append(acc.strings, Frag(k, Len(acc.values) + 1))]

\* variant of UsesWhere: the key alone decides, whatever its value
UsesWhereAnyValue(opts) ==
  \E i \in 1..Len(opts) : ArrayIncludes(WhereKeys, opts[i].key)

\* some own key with a truthy value is one of the WHERE filters
UsesWhere(opts) ==
  \E i \in 1..Len(opts) :
    Truthy(opts[i].value) /\ ArrayIncludes(WhereKeys, opts[i].key)

\* some own entry with a truthy value has a key that the string
\* 'minimum_rating' includes
UsesHaving(opts) ==
  \E i \in 1..Len(opts) :
    Truthy(opts[i].value)
      /\ StrIncludes(Chars("minimum_rating"), Chars(opts[i].key))

\* if (city) { push `%${city}%`; push `city LIKE $n` }
IfCity(opts, acc) ==
  IF Truthy(Get(opts, "city"))
  THEN Push(acc, "city LIKE", Wrap(Get(opts, "city")))
  ELSE acc

\* if (owner_id) { push owner_id; push `owner_id = $n` }
IfOwnerId(opts, acc) ==
  IF Truthy(Get(opts, "owner_id"))
  THEN Push(acc, "owner_id =", Get(opts, "owner_id"))
  ELSE acc

\* if (minimum_price_per_night) { push Number(..) * 100; push `.. >= $n` }
IfMinimumPrice(opts, acc) ==
  IF Truthy(Get(opts, "minimum_price_per_night"))
  THEN Push(acc, "cost_per_night >=",
            TimesHundred(Get(opts, "minimum_price_per_night")))
  ELSE acc

\* if (maximum_price_per_night) { push Number(..) * 100; push `.. <= $n` }
IfMaximumPrice(opts, acc) ==
  IF Truthy(Get(opts, "maximum_price_per_night"))
  THEN Push(acc, "cost_per_night <=",
            TimesHundred(Get(opts, "maximum_price_per_night")))
  ELSE acc

\* variant of WhereFilters: the maximum price block before the minimum's
WhereFiltersMaxFirst(opts) ==
  IfMinimumPrice(opts,
    IfMaximumPrice(opts, IfOwnerId(opts, IfCity(opts, EmptyAcc))))

\* the four `if (filter) { push; push }` blocks, in source order
WhereFilters(opts) ==
  IfMaximumPrice(opts,
    IfMinimumPrice(opts, IfOwnerId(opts, IfCity(opts, EmptyAcc))))

\* the `if (minimum_rating) { push; push }` block, on the values so far
HavingFilters(opts, values) ==
  IF Truthy(Get(opts, "minimum_rating"))
  THEN Push([values |-> values, strings |-> <<>>],
            "avg(property_reviews.rating) >=",
            ToNumber(Get(opts, "minimum_rating")))
  ELSE [values |-> values, strings |-> <<>>]

RECURSIVE Join(_, _)
\* Array.prototype.join: the fragments with sep between consecutive ones
Join(strs, sep) ==
  IF Len(strs) <= 1 THEN strs
  ELSE <<strs[1], sep>> \o Join(Tail(strs), sep)

And == Frag("AND", 0)

\* the default of the parameter `limit = 10`
DefaultLimit == 10

\* variant of LimitOrDefault: no default
LimitOrDefaultNone(lim) == lim

\* the parameter `limit = 10`: 10 when the argument is undefined
LimitOrDefault(lim) == IF lim = Undefined THEN Whole(DefaultLimit) ELSE lim

\* the values and predicates pushed inside `if (some WHERE key is truthy)`
WhereClause(opts) == IF UsesWhere(opts) THEN WhereFilters(opts) ELSE EmptyAcc

\* ... and inside `if (some entry passes the HAVING test)`
HavingClause(opts, values) ==
  IF UsesHaving(opts) THEN HavingFilters(opts, values)
  ELSE [values |-> values, strings |-> <<>>]

\* queryString += keyword, then the predicates joined by AND
Clause(keyword, used, strings) ==
  IF used THEN <<Frag(keyword, 0)>> \o Join(strings, And) ELSE <<>>

\* the text, n the index of the limit among the arguments
QueryText(opts, w, h, n) ==
  <<SelectProperties>> \o Clause("WHERE", UsesWhere(opts), w.strings)
    \o <<Frag("GROUP BY properties.id", 0)>>
    \o Clause("HAVING", UsesHaving(opts), h.strings)
    \o <<Frag("ORDER BY cost_per_night", 0), Frag("LIMIT", n)>>

\* queryValues.push(limit) and the text that ends with its placeholder
WithLimit(opts, lim, w, h) ==
  [text |-> QueryText(opts, w, h, Len(h.values) + 1),
   values |-> Append(h.values, LimitOrDefault(lim))]

WithHaving(opts, lim, w) ==
  WithLimit(opts, lim, w, HavingClause(opts, w.values))

\* the query text and argument list getAllProperties hands to db.query
getAllPropertiesQuery(opts, lim) == WithHaving(opts, lim, WhereClause(opts))

\* ------------------------------------------------- the fixed-shape queries
\* getUserWithEmail: values = [email]
getUserWithEmailQuery(email) ==
  [text |-> <<Frag("SELECT users.* FROM users WHERE users.email =", 1)>>,
   values |-> <<email>>]

\* getUserWithId: values = [Number(id)]
getUserWithIdQuery(id) ==
  [text |-> <<Frag("SELECT users.* FROM users WHERE users.id =", 1)>>,
   values |-> <<ToNumber(id)>>]

\* addUser: values = [name, email, password]
addUserQuery(user) ==
  [text |-> <<Frag("INSERT INTO users (name, email, password) VALUES (", 1),
              Frag(",", 2), Frag(",", 3), Frag(") RETURNING *", 0)>>,
   values |-> <<Get(user, "name"), Get(user, "email"),
                Get(user, "password")>>]

\* variant of getAllReservationsQuery: the guest filter bound to guest_id
getAllReservationsQueryByGuest(guest_id, lim) ==
  [text |-> <<Frag("SELECT reservations.*, properties.*, AVG(rating) AS average_rating FROM properties JOIN reservations ON properties.id = reservations.property_id JOIN property_reviews ON properties.id = property_reviews.property_id", 0),
              Frag("WHERE reservations.guest_id =", 1),
              Frag("GROUP BY reservations.id, properties.id", 0),
              Frag("ORDER BY reservations.start_date", 0),
              Frag("LIMIT", 2)>>,
   values |-> <<guest_id, LimitOrDefault(lim)>>]

\* getAllReservations: the guest filter is the literal 1, values = [limit]
getAllReservationsQuery(guest_id, lim) ==
  [text |-> <<Frag("SELECT reservations.*, properties.*, AVG(rating) AS average_rating FROM properties JOIN reservations ON properties.id = reservations.property_id JOIN property_reviews ON properties.id = property_reviews.property_id", 0),
              Frag("WHERE reservations.guest_id = 1", 0),
              Frag("GROUP BY reservations.id, properties.id", 0),
              Frag("ORDER BY reservations.start_date", 0),
              Frag("LIMIT", 1)>>,
   values |-> <<LimitOrDefault(lim)>>]

\* addProperty: the keys joined by ', ' as the column list, one placeholder
\* $i+1 per value, values = Object.values(property)
addPropertyQuery(property) ==
  [text |-> <<Frag("INSERT INTO properties (", 0)>>
            \o Join([i \in 1..Len(property) |-> Frag(property[i].key, 0)],
                    Frag(",", 0))
            \o <<Frag(") VALUES (", 0)>>
            \o Join([i \in 1..Len(property) |-> Frag("", i)], Frag(",", 0))
            \o <<Frag(") RETURNING *", 0)>>,
   values |-> [i \in 1..Len(property) |-> property[i].value]]

\* ------------------------------------------------------- .then handlers
Fulfilled(kind, rows) ==
  [state |-> "fulfilled", kind |-> kind, rows |-> rows, err |-> "none"]

Rejected(err) ==
  [state |-> "rejected", kind |-> "error", rows |-> <<>>, err |-> err]

\* variant of FirstRowOrNull: res.rows[0], undefined when there is no row
FirstRowAlways(rows) ==
  IF Len(rows) # 0 THEN Fulfilled("row", <<rows[1]>>)
  ELSE Fulfilled("undefined", <<>>)

\* res.rows.length ? res.rows[0] : null
FirstRowOrNull(rows) ==
  IF Len(rows) # 0 THEN Fulfilled("row", <<rows[1]>>)
  ELSE Fulfilled("null", <<>>)

\* res.rows.length ? res.rows : null
RowsOrNull(rows) ==
  IF Len(rows) # 0 THEN Fulfilled("rows", rows) ELSE Fulfilled("null", <<>>)

\* res.rows
AllRows(rows) == Fulfilled("rows", rows)

\* the value the operation's onFulfilled handler returns
OnFulfilled(o, rows) ==
  CASE o = "getUserWithEmail" -> FirstRowOrNull(rows)
    [] o = "getUserWithId" -> FirstRowOrNull(rows)
    [] o = "addUser" -> FirstRowOrNull(rows)
    [] o = "getAllReservations" -> RowsOrNull(rows)
    [] o = "getAllProperties" -> AllRows(rows)
    [] o = "addProperty" -> FirstRowOrNull(rows)

\* variant of OnRejected: a handler that turns the failure into null
OnRejectedSwallow(err) == Fulfilled("null", <<>>)

\* .then(onFulfilled) with no onRejected: a rejection passes through
OnRejected(err) == Rejected(err)

\* ------------------------------------------------------------ the inputs
AllKeys == FilterKeys \o ExtraKeys

Van == <<"v", "a", "n">>

Loft == <<"l", "o", "f", "t">>

\* the prices 1.1, 1.50, 2.25, 4.35 and 19.99: of these only 1.50 and 2.25
\* are doubles with a hundredfold that is exact
OneTen == Dec(110)

OneFifty == Dec(150)

TwoTwentyFive == Dec(225)

FourThirtyFive == Dec(435)

NineteenNinetyNine == Dec(1999)

\* one truthy and one falsy value per key, for mappings in every key order
TruthyValues ==
  [city |-> Str(Van),
   owner_id |-> Whole(7),
   minimum_price_per_night |-> OneTen,
   maximum_price_per_night |-> TwoTwentyFive,
   minimum_rating |-> Whole(4),
   rating |-> Whole(5),
   title |-> Str(Loft)]

TruthyOf(key) == TruthyValues[key]

FalsyValues == {Whole(0), Str(<<>>), Null, Bool(FALSE)}

FalsyOf(key) ==
  CASE key = "city" -> Str(<<>>)
    [] key = "owner_id" -> Whole(0)
    [] key = "minimum_price_per_night" -> Null
    [] key = "maximum_price_per_night" -> Bool(FALSE)
    [] key = "minimum_rating" -> Whole(0)
    [] key = "rating" -> Str(<<>>)

\* every falsy value and the truthy values a caller passes, per filter:
\* numbers, and strings as they arrive from a query string
FilterValues ==
  [city |-> FalsyValues \cup {Str(Van)},
   owner_id |-> FalsyValues \cup {Whole(7)},
   minimum_price_per_night |->
     FalsyValues \cup {OneFifty, NineteenNinetyNine, Str(<<" ", "2", ".", "5">>)},
   maximum_price_per_night |->
     FalsyValues \cup {FourThirtyFive, Str(<<"3">>), Str(<<"1", "e", "2">>)},
   minimum_rating |-> FalsyValues \cup {Whole(4), Str(<<"", "3", "﻿">>)}]

ValuesOf(key) == FilterValues[key]

Entry(key, value) == [key |-> key, value |-> value]

\* the longest mapping drawn in every key order
MaxOrdered == IF MaxKeys < Len(AllKeys) THEN MaxKeys ELSE Len(AllKeys)

\* the orders of n distinct keys, as positions in AllKeys
KeyOrders(n) ==
  { f \in [1..n -> 1..Len(AllKeys)] : \A i, j \in 1..n : i # j => f[i] # f[j] }

\* the mapping with the keys ks in that order, truthy at the positions in on
\* and falsy at the others
Permuted(ks, on) ==
  [i \in 1..Len(ks) |-> Entry(AllKeys[ks[i]],
                              IF i \in on THEN TruthyOf(AllKeys[ks[i]])
                              ELSE FalsyOf(AllKeys[ks[i]]))]

\* a mapping that also carries a title, first or last
Titled(m, first) ==
  IF first THEN <<Entry("title", TruthyOf("title"))>> \o m
  ELSE m \o <<Entry("title", TruthyOf("title"))>>

RECURSIVE Compact(_, _)
\* the entries of the keys from position i on that the choice f does not
\* leave absent (undefined marks an absent key)
Compact(f, i) ==
  IF i > Len(FilterKeys) THEN <<>>
  ELSE IF f[i] = Undefined THEN Compact(f, i + 1)
  ELSE <<Entry(FilterKeys[i], f[i])>> \o Compact(f, i + 1)

Limits == {Undefined, Whole(5)}

Emails == {Str(<<"a", "@", "b">>), Str(<<"c", "@", "d">>)}

\* ids as numbers and as the strings of a session or a route
Ids ==
  {Whole(7), Str(<<"7">>), Str(<<" ", "7", " ">>), Str(<<"", "7">>),
   Str(<<"\\u2003", "7", "﻿">>), Str(<<"1", "e", "2">>),
   Str(<<"-", "3">>), Str(<<"x">>)}

Guests == {Whole(1), Whole(2), Str(<<"3">>)}

Users ==
  { <<Entry("name", Str(<<"A", "l">>)), Entry("email", e),
      Entry("password", Str(<<"p", "w">>))>> : e \in Emails } \cup
  { <<Entry("password", Str(<<"p", "w">>)), Entry("email", e)>> : e \in Emails }

Properties ==
  { <<>>,
    <<Entry("title", Str(Loft))>>,
    <<Entry("title", Str(Loft)), Entry("owner_id", Whole(7))>>,
    <<Entry("owner_id", Whole(7)), Entry("title", Str(Loft))>> }

\* the searches issued while other calls are in flight
Searches ==
  { <<>>,
    <<Entry("city", Str(Van)), Entry("minimum_rating", Whole(4))>>,
    <<Entry("minimum_price_per_night", OneTen)>> }

\* what the store may answer: up to MaxRows rows (a row is named by its
\* rank in the answer), or one of two failures
RowSeqs == { [i \in 1..n |-> i] : n \in 0..MaxRows }

Errors == {"connection refused", "syntax error"}

\* ------------------------------------------------------------- the state
NoRequest == [text |-> <<>>, values |-> <<>>]

NoOutcome == [kind |-> "none", rows |-> <<>>, err |-> "none"]

NoResult == [state |-> "none", kind |-> "none", rows |-> <<>>, err |-> "none"]

\* no call in flight; the variables of the query builder are at rest
Init ==
  /\ calls = EmptyBag
  /\ options = <<>>
  /\ limit = Undefined
  /\ request = NoRequest

\* a call in flight: the arguments, the query built from them and handed to
\* db.query(text, values), and the promise returned, pending
Call(o, opts, p, lim, q) ==
  [op |-> o, pc |-> "pending", options |-> opts, param |-> p, limit |-> lim,
   request |-> q, queries |-> 1, outcome |-> NoOutcome, result |-> NoResult]

\* a call is accepted whatever else is in flight
Issue(c) ==
  /\ calls' = calls (+) SetToBag({c})
  /\ UNCHANGED <<options, limit, request>>

\* the call c moves on as d
Step(c, d) ==
  /\ calls' = (calls (-) SetToBag({c})) (+) SetToBag({d})
  /\ UNCHANGED <<options, limit, request>>

InFlight == BagToSet(calls)

getUserWithEmail ==
  /\ BagCardinality(calls) < MaxCalls
  /\ \E email \in Emails :
       Issue(Call("getUserWithEmail", <<>>, email, Undefined,
                  getUserWithEmailQuery(email)))

getUserWithId ==
  /\ BagCardinality(calls) < MaxCalls
  /\ \E id \in Ids :
       Issue(Call("getUserWithId", <<>>, id, Undefined,
                  getUserWithIdQuery(id)))

addUser ==
  /\ BagCardinality(calls) < MaxCalls
  /\ \E user \in Users :
       Issue(Call("addUser", user, Undefined, Undefined, addUserQuery(user)))

getAllReservations ==
  /\ BagCardinality(calls) < MaxCalls
  /\ \E guest_id \in Guests, lim \in Limits :
       Issue(Call("getAllReservations", <<>>, guest_id, lim,
                  getAllReservationsQuery(guest_id, lim)))

getAllProperties ==
  /\ BagCardinality(calls) < MaxCalls
  /\ \E opts \in Searches, lim \in Limits :
       Issue(Call("getAllProperties", opts, Undefined, lim,
                  getAllPropertiesQuery(opts, lim)))

addProperty ==
  /\ BagCardinality(calls) < MaxCalls
  /\ \E property \in Properties :
       Issue(Call("addProperty", property, Undefined, Undefined,
                  addPropertyQuery(property)))

\* the query is with the store: the call no longer holds its arguments
Settled(c, out) ==
  [c EXCEPT !.pc = "answered", !.outcome = out, !.request = NoRequest,
            !.options = <<>>, !.param = Undefined, !.limit = Undefined]

\* the store settles one of the queries in flight: with rows ...
StoreAnswers ==
  \E c \in InFlight :
    /\ c.pc = "pending"
    /\ \E rows \in RowSeqs :
         Step(c, Settled(c, [kind |-> "rows", rows |-> rows, err |-> "none"]))

\* ... or with a failure
StoreFails ==
  \E c \in InFlight :
    /\ c.pc = "pending"
    /\ \E err \in Errors :
         Step(c, Settled(c, [kind |-> "error", rows |-> <<>>, err |-> err]))

\* the promise returned by .then settles: the handler runs on the rows
ThenFulfilled ==
  \E c \in InFlight :
    /\ c.pc = "answered"
    /\ c.outcome.kind = "rows"
    /\ Step(c, [c EXCEPT !.pc = "done",
                         !.result = OnFulfilled(c.op, c.outcome.rows)])

\* ... or the store's failure passes through
ThenRejected ==
  \E c \in InFlight :
    /\ c.pc = "answered"
    /\ c.outcome.kind = "error"
    /\ Step(c, [c EXCEPT !.pc = "done",
                         !.result = OnRejected(c.outcome.err)])

\* the caller has consumed the result: the call is over
Return ==
  \E c \in InFlight :
    /\ c.pc = "done"
    /\ calls' = calls (-) SetToBag({c})
    /\ UNCHANGED <<options, limit, request>>

Next ==
  \/ getUserWithEmail
  \/ getUserWithId
  \/ addUser
  \/ getAllReservations
  \/ getAllProperties
  \/ addProperty
  \/ StoreAnswers
  \/ StoreFails
  \/ ThenFulfilled
  \/ ThenRejected
  \/ Return

Spec == Init /\ [][Next]_vars

\* ------------------------------------------- the query builder, on its own
\* the search is called with a limit or none and with a mapping: of at most
\* MaxKeys entries over all keys, in every key order, each value truthy or
\* falsy; or a short one that also carries a title; or one over the five
\* filters in source order, each absent or any of its values
SearchInit ==
  /\ calls = EmptyBag
  /\ request = NoRequest
  /\ limit \in Limits
  /\ \/ \E n \in 0..MaxOrdered :
          \E ks \in KeyOrders(n), on \in SUBSET (1..n) :
            options = Permuted(ks, on)
     \/ \E n \in 0..2 :
          \E ks \in KeyOrders(n), on \in SUBSET (1..n), first \in BOOLEAN :
            options = Titled(Permuted(ks, on), first)
     \/ \E c \in ValuesOf("city") \cup {Undefined},
           o \in ValuesOf("owner_id") \cup {Undefined},
           lo \in ValuesOf("minimum_price_per_night") \cup {Undefined},
           hi \in ValuesOf("maximum_price_per_night") \cup {Undefined},
           r \in ValuesOf("minimum_rating") \cup {Undefined} :
          options = Compact(<<c, o, lo, hi, r>>, 1)

\* getAllProperties builds the text and the argument list it sends
BuildQuery ==
  /\ request = NoRequest
  /\ request' = getAllPropertiesQuery(options, limit)
  /\ UNCHANGED <<calls, options, limit>>

SearchNext == BuildQuery

SearchSpec == SearchInit /\ [][SearchNext]_vars

\* ================================================================ claims
\* the builder has run: options and limit are its arguments, request the
\* text and the argument list it built
Searching == request # NoRequest

IsPlaceholder(f) == f.ph # 0

\* the fragments of a text that carry a placeholder, in text order
Placeholders(text) == SelectSeq(text, IsPlaceholder)

Has(text, k) == \E i \in 1..Len(text) : text[i].k = k

Count(text, k) == Cardinality({i \in 1..Len(text) : text[i].k = k})

Pos(text, k) == CHOOSE i \in 1..Len(text) : text[i].k = k

\* the WHERE filters whose value is truthy, in the fixed order
IsPresent(key) == Truthy(Get(options, key))

PresentWhere == SelectSeq(WhereKeys, IsPresent)

PredicateOf(key) ==
  CASE key = "city" -> "city LIKE"
    [] key = "owner_id" -> "owner_id ="
    [] key = "minimum_price_per_night" -> "cost_per_night >="
    [] key = "maximum_price_per_night" -> "cost_per_night <="
    [] key = "minimum_rating" -> "avg(property_reviews.rating) >="

\* the value a filter binds: %city%, the owner id as given, the price in
\* minor units, the rating as a number
BoundOf(key) ==
  LET v == Get(options, key)
  IN CASE key = "city" -> Str(<<"%">> \o v.s \o <<"%">>)
       [] key = "owner_id" -> v
       [] key = "minimum_price_per_night" -> TimesHundred(v)
       [] key = "maximum_price_per_night" -> TimesHundred(v)
       [] key = "minimum_rating" -> ToNumber(v)

\* the value the fragment f of a search query is about
OwnValue(f) ==
  IF f.k = "LIMIT" THEN (IF limit = Undefined THEN Whole(10) ELSE limit)
  ELSE BoundOf(CHOOSE key \in {FilterKeys[i] : i \in 1..Len(FilterKeys)} :
                 PredicateOf(key) = f.k)

\* C1: the placeholders of a search query are $1..$n in text order, n the
\* length of the argument list; $k is bound to the k-th argument, which is
\* the value of the fragment that writes $k; the placeholders before GROUP BY
\* are as many as the truthy WHERE filters.
C1_PlaceholdersTrackPushOrder ==
  Searching =>
    LET phs == Placeholders(request.text)
        g == Pos(request.text, "GROUP BY properties.id")
    IN /\ Len(phs) = Len(request.values)
       /\ \A i \in 1..Len(phs) :
            /\ phs[i].ph = i
            /\ request.values[i] = OwnValue(phs[i])
       /\ Len(Placeholders(SubSeq(request.text, 1, g))) = Len(PresentWhere)
       /\ (Len(PresentWhere) = 1 =>
             \E i \in 1..g : /\ request.text[i].ph = 1
                             /\ request.text[i].k = PredicateOf(PresentWhere[1]))

\* three WHERE filters and the rating bound, in an options mapping that
\* lists the rating first and the city last
C1_Witness ==
  /\ Searching
  /\ Len(options) = 4
  /\ Len(request.values) = 5
  /\ Len(PresentWhere) = 3
  /\ options[1].key = "minimum_rating"
  /\ options[4].key = "city"
  /\ request.text[Len(request.text)] = Frag("LIMIT", 5)

\* C2: WHERE is in the query exactly when one of the four WHERE filters is
\* truthy, at most once, and it is followed by a predicate.
C2_WhereIffTruthyFilter ==
  Searching =>
    /\ Has(request.text, "WHERE") <=> Len(PresentWhere) > 0
    /\ Count(request.text, "WHERE") <= 1
    /\ Has(request.text, "WHERE") =>
         LET w == Pos(request.text, "WHERE")
         IN /\ w < Len(request.text)
            /\ request.text[w + 1].ph # 0
            /\ \E i \in 1..Len(WhereKeys) :
                 request.text[w + 1].k = PredicateOf(WhereKeys[i])

\* WHERE filters are given but all falsy, with a truthy rating: no WHERE
C2_Witness ==
  /\ Searching
  /\ \E i \in 1..Len(options) : ArrayIncludes(WhereKeys, options[i].key)
  /\ Len(PresentWhere) = 0
  /\ IsPresent("minimum_rating")
  /\ ~Has(request.text, "WHERE")

\* C3: HAVING is in the query only if minimum_rating is truthy, and then it
\* is followed by the rating predicate bound to the rating; a truthy rating
\* with no WHERE filter gives HAVING and no WHERE.
C3_HavingOnlyForMinimumRating ==
  Searching =>
    /\ Has(request.text, "HAVING") =>
         LET h == Pos(request.text, "HAVING")
         IN /\ IsPresent("minimum_rating")
            /\ request.text[h + 1].k = PredicateOf("minimum_rating")
            /\ request.text[h + 1].ph # 0
            /\ request.values[request.text[h + 1].ph]
                 = BoundOf("minimum_rating")
    /\ (IsPresent("minimum_rating") /\ Len(PresentWhere) = 0) =>
         (Has(request.text, "HAVING") /\ ~Has(request.text, "WHERE"))

\* the section of a search text after WHERE and before GROUP BY
WhereSection ==
  IF Has(request.text, "WHERE")
  THEN SubSeq(request.text, Pos(request.text, "WHERE") + 1,
              Pos(request.text, "GROUP BY properties.id") - 1)
  ELSE <<>>

\* C4: the WHERE section is one predicate per truthy WHERE filter in the
\* order city, owner_id, minimum price, maximum price, whatever the key order
\* of the mapping, with AND between consecutive predicates and nowhere else;
\* the arguments are the bound values in that order, the city as %city%.
C4_PredicatesInFixedOrder ==
  Searching =>
    LET n == Len(PresentWhere)
    IN /\ Len(WhereSection) = (IF n = 0 THEN 0 ELSE 2 * n - 1)
       /\ \A j \in 1..n :
            /\ WhereSection[2 * j - 1] = Frag(PredicateOf(PresentWhere[j]), j)
            /\ request.values[j] = BoundOf(PresentWhere[j])
       /\ \A j \in 1..n - 1 : WhereSection[2 * j] = Frag("AND", 0)
       /\ Count(request.text, "AND") = (IF n = 0 THEN 0 ELSE n - 1)

\* the four WHERE filters, all truthy, listed in the reverse of the fixed
\* order
C4_Witness ==
  /\ Searching
  /\ Len(PresentWhere) = 4
  /\ options[1].key = "maximum_price_per_night"
  /\ options[2].key = "minimum_price_per_night"
  /\ options[3].key = "owner_id"
  /\ options[4].key = "city"
  /\ request.values[1] = Str(<<"%", "v", "a", "n", "%">>)

\* C5: GROUP BY, ORDER BY cost_per_night and LIMIT are in every search query
\* once; the clauses present are in the order WHERE, GROUP BY, HAVING,
\* ORDER BY, LIMIT; LIMIT writes the last placeholder and the last argument
\* is the limit given, or 10 when none is given.
C5_ClauseOrderAndLimit ==
  Searching =>
    LET t == request.text
        n == Len(request.values)
        g == Pos(t, "GROUP BY properties.id")
        o == Pos(t, "ORDER BY cost_per_night")
    IN /\ Count(t, "GROUP BY properties.id") = 1
       /\ Count(t, "ORDER BY cost_per_night") = 1
       /\ Count(t, "LIMIT") = 1
       /\ Has(t, "WHERE") => Pos(t, "WHERE") < g
       /\ Has(t, "HAVING") => (g < Pos(t, "HAVING") /\ Pos(t, "HAVING") < o)
       /\ g < o
       /\ o + 1 = Len(t)
       /\ t[Len(t)] = Frag("LIMIT", n)
       /\ request.values[n] = (IF limit = Undefined THEN Whole(10) ELSE limit)
       /\ (options = <<Entry("city", Str(Van)),
                       Entry("minimum_rating", Whole(4))>>
             /\ limit = Whole(5)) =>
            /\ request.values
                 = <<Str(<<"%", "v", "a", "n", "%">>), Whole(4), Whole(5)>>
            /\ [i \in 1..Len(t) |-> t[i].k]
                 = <<SelectProperties.k, "WHERE", "city LIKE",
                     "GROUP BY properties.id", "HAVING",
                     "avg(property_reviews.rating) >=",
                     "ORDER BY cost_per_night", "LIMIT">>
            /\ [i \in 1..3 |-> Placeholders(t)[i].ph] = <<1, 2, 3>>

\* a search with WHERE and HAVING filters and no limit given
C5_Witness ==
  /\ Searching
  /\ limit = Undefined
  /\ Has(request.text, "WHERE")
  /\ Has(request.text, "HAVING")
  /\ request.values[Len(request.values)] = Whole(10)

\* the mapping without its i-th entry
Without(m, i) == SubSeq(m, 1, i - 1) \o SubSeq(m, i + 1, Len(m))

\* C6: a filter given as 0, '', null or false is as good as omitted: the
\* query text and arguments are those of the search without that key.
C6_FalsyFilterIsAbsent ==
  Searching =>
    \A i \in 1..Len(options) :
      (ArrayIncludes(FilterKeys, options[i].key)
         /\ options[i].value \in FalsyValues) =>
        /\ getAllPropertiesQuery(Without(options, i), limit) = request
        /\ ~Has(request.text, PredicateOf(options[i].key))

\* a rating of 0 next to a truthy city
C6_Witness ==
  /\ Searching
  /\ \E i \in 1..Len(options) :
       options[i].key = "minimum_rating" /\ options[i].value = Whole(0)
  /\ \E i \in 1..Len(options) :
       options[i].key = "maximum_price_per_night"
         /\ options[i].value = Str(<<>>)
  /\ IsPresent("city")

\* the argument bound by the predicate k of the search query in flight
ArgOf(k) == request.values[request.text[Pos(request.text, k)].ph]

\* the double written 1998.9999999999998
JustUnder1999 ==
  StrToNumber(<<"1", "9", "9", "8", ".", "9", "9", "9", "9", "9", "9", "9",
                "9", "9", "9", "9", "9", "8">>)

\* the double written 434.99999999999994
JustUnder435 ==
  StrToNumber(<<"4", "3", "4", ".", "9", "9", "9", "9", "9", "9", "9", "9",
                "9", "9", "9", "9", "9", "4">>)

\* C7: a truthy price bound p is bound as the product of the number p by
\* 100, as doubles multiply (1.50 as 150, the string "3" as 300; 19.99, whose
\* hundredfold is no double, as 1998.9999999999998; a string as the number
\* it denotes once the white space around it is stripped, a no-break space
\* before 2.5 as 250); owner_id is bound as given, minimum_rating as the
\* number it denotes and limit as given.
C7_PricesInMinorUnits ==
  Searching =>
    /\ \A key \in {"minimum_price_per_night", "maximum_price_per_night"} :
         IsPresent(key) =>
           ArgOf(PredicateOf(key)) = DoubleTimes100(ToNumber(Get(options, key)))
    /\ Get(options, "minimum_price_per_night") = OneFifty =>
         ArgOf(PredicateOf("minimum_price_per_night")) = Whole(150)
    /\ Get(options, "minimum_price_per_night") = NineteenNinetyNine =>
         ArgOf(PredicateOf("minimum_price_per_night")) = JustUnder1999
    /\ Get(options, "maximum_price_per_night") = Str(<<"3">>) =>
         ArgOf(PredicateOf("maximum_price_per_night")) = Whole(300)
    /\ Get(options, "maximum_price_per_night") = FourThirtyFive =>
         ArgOf(PredicateOf("maximum_price_per_night")) = JustUnder435
    /\ Get(options, "maximum_price_per_night") = Str(<<"1", "e", "2">>) =>
         ArgOf(PredicateOf("maximum_price_per_night")) = Whole(10000)
    /\ Get(options, "minimum_price_per_night") = Str(<<" ", "2", ".", "5">>) =>
         ArgOf(PredicateOf("minimum_price_per_night")) = Whole(250)
    /\ IsPresent("owner_id") =>
         ArgOf(PredicateOf("owner_id")) = Get(options, "owner_id")
    /\ IsPresent("minimum_rating") =>
         ArgOf(PredicateOf("minimum_rating"))
           = ToNumber(Get(options, "minimum_rating"))
    /\ Get(options, "minimum_rating") = Whole(4) =>
         ArgOf(PredicateOf("minimum_rating")) = Whole(4)
    /\ Get(options, "minimum_rating") = Str(<<"", "3", "﻿">>) =>
         ArgOf(PredicateOf("minimum_rating")) = Whole(3)
    /\ limit # Undefined => ArgOf("LIMIT") = limit

\* both bounds given, the minimum as the number 1.50, the maximum as the
\* string "3"
C7_Witness ==
  /\ Searching
  /\ Get(options, "minimum_price_per_night") = OneFifty
  /\ Get(options, "maximum_price_per_night") = Str(<<"3">>)
  /\ ArgOf("cost_per_night >=") = Whole(150)
  /\ ArgOf("cost_per_night <=") = Whole(300)

Operations ==
  {"getUserWithEmail", "getUserWithId", "addUser", "getAllReservations",
   "getAllProperties", "addProperty"}

\* C8: every call in flight, of any of the six operations, has issued one
\* store query, whatever the other calls do; when the store fails it the
\* call's promise is rejected with the store's error, and no further query is
\* issued.
C8_StoreFailurePropagates ==
  \A c \in InFlight :
    /\ c.op \in Operations
    /\ c.queries = 1
    /\ (c.pc = "done" /\ c.outcome.kind = "error") =>
         /\ c.result.state = "rejected"
         /\ c.result.err = c.outcome.err

\* a search rejected with the store's error while a later call is pending
C8_Witness ==
  \E c, d \in InFlight :
    /\ c.pc = "done"
    /\ c.op = "getAllProperties"
    /\ c.outcome.kind = "error"
    /\ c.outcome.err = "syntax error"
    /\ c.result.state = "rejected"
    /\ d.pc = "pending"

\* C9: when the store answers, getUserWithEmail and getUserWithId resolve to
\* the first row, or to null when there is no row; never a rejection.
C9_LookupResolvesRowOrNull ==
  \A c \in InFlight :
    (c.pc = "done" /\ c.op \in {"getUserWithEmail", "getUserWithId"}
       /\ c.outcome.kind = "rows") =>
      /\ c.result.state = "fulfilled"
      /\ IF c.outcome.rows = <<>>
         THEN c.result.kind = "null"
         ELSE c.result.kind = "row" /\ c.result.rows = <<c.outcome.rows[1]>>

\* a lookup by id that found nothing, next to a lookup by email that found
\* two rows
C9_Witness ==
  \E c, d \in InFlight :
    /\ c.pc = "done"
    /\ c.op = "getUserWithId"
    /\ c.outcome.kind = "rows"
    /\ c.outcome.rows = <<>>
    /\ c.result.kind = "null"
    /\ d.pc = "done"
    /\ d.op = "getUserWithEmail"
    /\ Len(d.outcome.rows) = 2
    /\ d.result.kind = "row"

\* C10: the query of getAllReservations does not depend on guest_id: the
\* guest filter is the literal 1, the only argument is the limit, and any
\* other guest_id with the same limit gives the same text and arguments.
C10_GuestIdIgnored ==
  \A c \in InFlight :
    (c.pc = "pending" /\ c.op = "getAllReservations") =>
      /\ Has(c.request.text, "WHERE reservations.guest_id = 1")
      /\ Len(Placeholders(c.request.text)) = 1
      /\ c.request.values
           = <<IF c.limit = Undefined THEN Whole(10) ELSE c.limit>>
      /\ \A g \in Guests : getAllReservationsQuery(g, c.limit) = c.request

\* two calls pending for different guests with the same limit
C10_Witness ==
  \E c, d \in InFlight :
    /\ c.pc = "pending"
    /\ c.op = "getAllReservations"
    /\ c.param = Whole(2)
    /\ c.limit = Whole(5)
    /\ c.request.values = <<Whole(5)>>
    /\ d.pc = "pending"
    /\ d.op = "getAllReservations"
    /\ d.param = Str(<<"3">>)
    /\ d.request = c.request

====
